---------------------------- MODULE Spec2Model ----------------------------
(***************************************************************************)
(* A model of taiwan_stock_analysis: the column model and MariadbTable     *)
(* query builder, the MariadbClient, and the DailyTradingSpider planner    *)
(* with the DailyTradingPipeline completion ledger.                        *)
(*                                                                         *)
(* Two specifications share the module:                                    *)
(*   SpecTable  table construction and insert through the client,          *)
(*   Spec       the crawl: planning passes, fetches, ingests, the clock.   *)
(***************************************************************************)
EXTENDS Integers, Sequences, FiniteSets, Bags, TLC

VARIABLES
    \* ---- table specification ----
    table,       \* the MariadbTable last constructed: [input, result]
    dbt,         \* the store's table created from table.result._table_query
    calls,       \* the successful client.insert calls made on it, in order
    attempt,     \* the last client.insert call or property assignment: its
                 \* arguments, what it raised
    rendered,    \* the column whose definition() was last called, and the result
    \* ---- crawl specification ----
    symbols,     \* rows of stock_info read by get_symbols: <<symbol, listing_date>>
    now,         \* wall clock, UTC+8, as <<year, month>>
    ticks,       \* months the clock has advanced
    store,       \* committed state of the database
    tx,          \* state seen by the pipeline's connection (committed + pending)
    client,      \* "closed" | "open": DailyTradingPipeline.client
    connection,  \* DailyTradingSpider.connection: "None" | "ro"
    plan,        \* the start_requests generator: its locals and position
    out,         \* units enumerated in this pass, in order, emitted or passed
    blk,         \* per security of this pass: the locals fixed at its block start
    queue,       \* requests scheduled and not yet downloaded
    item,        \* the item parse yielded, waiting for process_item
    ops,         \* calls the process_item call that just returned made on the
                 \* client (forgotten at the engine's next step)
    retry        \* requested units left unresolved: in this pass (this), and
                 \* in the pass before and not requested since (owed)

tvars == <<table, dbt, calls, attempt, rendered>>
cvars == <<symbols, now, ticks, store, tx, client, connection, plan, out,
           blk, queue, item, ops, retry>>
vars == <<table, dbt, calls, attempt, rendered, symbols, now, ticks, store, tx, client,
          connection, plan, out, blk, queue, item, ops, retry>>

---------------------------------------------------------------------------
(* Bounds of the model.                                                    *)

MaxCols == 2      \* columns in a constructor input
MaxInserts == 2   \* insert calls on one constructed table
MaxTicks == 1     \* months the clock advances in one behaviour
MaxQueue == 1     \* requests scheduled at once
MaxRows == 1      \* data rows in one response
MaxAhead == 1     \* months a non-terminating enumeration is followed

---------------------------------------------------------------------------
(* Generic helpers.                                                        *)

Range(s) == {s[i] : i \in 1..Len(s)}

SeqsUpTo(S, n) == UNION {[1..k -> S] : k \in 0..n}

Position(s, x) == CHOOSE i \in 1..Len(s) : s[i] = x

---------------------------------------------------------------------------
(* Column model: database/datatype.py.                                     *)

UNSIGNED == "UNSIGNED"
SIGNED == "SIGNED"
ZEROFILL == "ZEROFILL"

IntegerClasses == {"TinyInt", "SmallInt", "Integer", "BigInt"}
DataTypeClasses == {"DataType", "Text", "VarChar", "NumericType", "Decimal"}
                      \cup IntegerClasses

\* A column object. id is the object's identity: DataType is declared
\* @dataclass(eq=False), so == and hash() are those of object.
Column(id, cls, name, pk, length, attr, precision, scale) ==
    [id |-> id, cls |-> cls, name |-> name, primary_key |-> pk,
     length |-> length, attribute |-> attr,
     precision |-> precision, scale |-> scale]

Text(id, name, pk) == Column(id, "Text", name, pk, 0, "", 0, 0)
VarChar(id, name, length, pk) == Column(id, "VarChar", name, pk, length, "", 0, 0)
TinyInt(id, name, attr, pk) == Column(id, "TinyInt", name, pk, 0, attr, 0, 0)
SmallInt(id, name, attr, pk) == Column(id, "SmallInt", name, pk, 0, attr, 0, 0)
Integer(id, name, attr, pk) == Column(id, "Integer", name, pk, 0, attr, 0, 0)
BigInt(id, name, attr, pk) == Column(id, "BigInt", name, pk, 0, attr, 0, 0)
Decimal(id, name, precision, scale, pk) ==
    Column(id, "Decimal", name, pk, 0, SIGNED, precision, scale)
\* An object that is no DataType instance.
NotAColumn(id) == Column(id, "str", "", FALSE, 0, "", 0, 0)

IsDataType(c) == c.cls \in DataTypeClasses

numeric_type(c) ==
    CASE c.cls = "TinyInt" -> "TINYINT"
      [] c.cls = "SmallInt" -> "SMALLINT"
      [] c.cls = "Integer" -> "INT"
      [] c.cls = "BigInt" -> "BIGINT"
      [] c.cls = "Decimal" -> "DECIMAL"
      [] OTHER -> ""

\* A determine_attr that takes any unknown tag for SIGNED.
determine_attr_Lenient(c) ==
    IF c.attribute = ZEROFILL THEN [raises |-> "", value |-> "ZEROFILL"]
    ELSE IF c.attribute = UNSIGNED THEN [raises |-> "", value |-> "UNSIGNED"]
    ELSE [raises |-> "", value |-> "SIGNED"]

\* NumericType.determine_attr: the SQL attribute, or ValueError.
determine_attr(c) ==
    IF c.attribute = ZEROFILL THEN [raises |-> "", value |-> "ZEROFILL"]
    ELSE IF c.attribute = UNSIGNED THEN [raises |-> "", value |-> "UNSIGNED"]
    ELSE IF c.attribute = SIGNED THEN [raises |-> "", value |-> "SIGNED"]
    ELSE [raises |-> "ValueError", value |-> ""]

\* A rendered fragment "<name> <type>[(params)][ <attr>]", kept in its parts.
Fragment(name, type, params, attr) ==
    [raises |-> "", name |-> name, type |-> type, params |-> params, attr |-> attr]

NoFragment(exc) ==
    [raises |-> exc, name |-> "", type |-> "", params |-> <<>>, attr |-> ""]

\* definition() of each class.
definition(c) ==
    CASE c.cls = "Text" -> Fragment(c.name, "TEXT", <<>>, "")
      [] c.cls = "VarChar" ->
            Fragment(c.name, "VARCHAR", <<c.length>>, "CHARACTER SET utf8")
      [] c.cls = "Decimal" ->
            Fragment(c.name, numeric_type(c), <<c.precision, c.scale>>, "")
      [] c.cls \in IntegerClasses ->
            IF determine_attr(c).raises # ""
            THEN NoFragment(determine_attr(c).raises)
            ELSE Fragment(c.name, numeric_type(c), <<>>, determine_attr(c).value)
      [] OTHER -> NoFragment("NotImplementedError")

---------------------------------------------------------------------------
(* MariadbTable: database/mariadbclient.py.                                *)

\* The constructor's `columns` argument: a single object, a list, or another
\* iterable (a generator, an iterator), with the objects it yields.
ColumnsArg(form, elems) == [form |-> form, elems |-> elems]

\* bool(columns): a list is falsy when empty; an iterator object and a
\* DataType instance define neither __bool__ nor __len__ and are truthy.
Truthy(columns) ==
    IF columns.form = "list" THEN Len(columns.elems) > 0 ELSE TRUE

IsIterable(columns) == columns.form \in {"list", "iterator"}

TableError(exc) ==
    [raises |-> exc, _table_name |-> "", _columns |-> <<>>,
     _insert_query |-> [into |-> "", values |-> <<>>, update |-> <<>>],
     _table_query |-> [name |-> "", items |-> <<>>]]

\* len(set(self._columns)): the number of distinct objects (hash by identity).
SetLen(cols) == Cardinality({cols[i].id : i \in 1..Len(cols)})

\* The key names in reverse order of declaration.
PrimaryNames_Reversed(cols) ==
    LET is_pk(c) == c.primary_key
        pks == SelectSeq(cols, is_pk)
    IN [i \in 1..Len(pks) |-> pks[Len(pks) + 1 - i].name]

\* primary: lines 87-89.
PrimaryNames(cols) ==
    LET is_pk(c) == c.primary_key
        pks == SelectSeq(cols, is_pk)
    IN [i \in 1..Len(pks) |-> pks[i].name]

\* An update clause that assigns the first key column only.
UpdateClause_First(primary) ==
    <<[column |-> primary[1], values_of |-> primary[1]]>>

\* The assignments after ON DUPLICATE KEY UPDATE: lines 97-101.
UpdateClause(primary) ==
    [i \in 1..Len(primary) |-> [column |-> primary[i], values_of |-> primary[i]]]

\* __post_init__: lines 69-106.
MariadbTable(name, columns) ==
    IF ~Truthy(columns)
    THEN TableError("ValueError: You must provide at least one data type")
    ELSE
    LET cols == IF IsIterable(columns) THEN columns.elems
                ELSE <<columns.elems[1]>>
    IN
    IF \E i \in 1..Len(cols) : ~IsDataType(cols[i])
    THEN TableError("ValueError: All elements in 'columns' must be type DataType")
    ELSE IF Len(cols) # SetLen(cols)
    THEN TableError("ValueError: Duplicate column names are not allowed")
    ELSE
    LET primary == PrimaryNames(cols)
        placeholders == [i \in 1..Len(cols) |-> "?"]
        defs == [i \in 1..Len(cols) |-> definition(cols[i])]
        failed == {i \in 1..Len(cols) : defs[i].raises # ""}
        items == [i \in 1..Len(cols) |-> [kind |-> "column", def |-> defs[i],
                                          cols |-> <<>>]]
        pkitem == [kind |-> "PRIMARY KEY", def |-> NoFragment(""), cols |-> primary]
    IN
    IF failed # {}
    THEN TableError(defs[CHOOSE i \in failed : \A j \in failed : i <= j].raises)
    ELSE
    [raises |-> "",
     _table_name |-> name,
     _columns |-> cols,
     \* INSERT INTO <name> VALUES (?, ...)[ ON DUPLICATE KEY UPDATE c = VALUES(c), ...]
     _insert_query |->
        [into |-> name,
         values |-> placeholders,
         update |-> IF primary # <<>> THEN UpdateClause(primary) ELSE <<>>],
     \* CREATE TABLE IF NOT EXISTS <name> (<item>, ...)
     _table_query |->
        [name |-> name,
         items |-> IF primary # <<>> THEN Append(items, pkitem) ELSE items]]

\* MariadbTable.__len__
TableLen(t) == Len(t._columns)

---------------------------------------------------------------------------
(* The store: MariaDB's execution of the generated statements.             *)

\* rows is a bag: a table without a key may hold a row several times.
NoTable == [exists |-> FALSE, columns |-> <<>>, pk |-> <<>>, rows |-> EmptyBag]

ColumnItems(q) ==
    LET is_col(it) == it.kind = "column" IN SelectSeq(q.items, is_col)

KeyItems(q) ==
    LET is_key(it) == it.kind = "PRIMARY KEY" IN SelectSeq(q.items, is_key)

\* A CREATE TABLE that replaces an existing table by an empty one.
CreateTable_Replace(q, t) ==
    LET cis == SelectSeq(q.items, LAMBDA it : it.kind = "column")
        keys == SelectSeq(q.items, LAMBDA it : it.kind = "PRIMARY KEY")
    IN [raises |-> "",
        t |-> [exists |-> TRUE,
               columns |-> [i \in 1..Len(cis) |-> cis[i].def.name],
               pk |-> IF keys = <<>> THEN <<>> ELSE keys[1].cols,
               rows |-> EmptyBag]]

\* CREATE TABLE IF NOT EXISTS: an existing table is kept as it is; a table
\* with no column or with a repeated column name is refused.
CreateTable(q, t) ==
    LET cis == ColumnItems(q)
        names == [i \in 1..Len(cis) |-> cis[i].def.name]
    IN
    IF t.exists THEN [raises |-> "", t |-> t]
    ELSE IF Len(cis) = 0 \/ Cardinality(Range(names)) # Len(names)
    THEN [raises |-> "mariadb.ProgrammingError", t |-> t]
    ELSE [raises |-> "",
          t |-> [exists |-> TRUE, columns |-> names,
                 pk |-> IF KeyItems(q) = <<>> THEN <<>> ELSE KeyItems(q)[1].cols,
                 rows |-> EmptyBag]]

KeyOf(t, row) == [i \in 1..Len(t.pk) |-> row[Position(t.columns, t.pk[i])]]

\* ON DUPLICATE KEY UPDATE: only the assigned columns of the stored row change.
UpdateRow(t, old, new, update) ==
    [i \in 1..Len(old) |->
        IF \E a \in Range(update) : a.column = t.columns[i]
        THEN LET a == CHOOSE b \in Range(update) : b.column = t.columns[i]
             IN new[Position(t.columns, a.values_of)]
        ELSE old[i]]

\* cursor.execute(<insert statement>, params)
ExecInsert(q, params, t) ==
    IF ~t.exists \/ Len(params) # Len(q.values) \/ Len(params) # Len(t.columns)
    THEN [raises |-> "mariadb.ProgrammingError", t |-> t]
    ELSE IF t.pk # <<>> /\ \E r \in BagToSet(t.rows) : KeyOf(t, r) = KeyOf(t, params)
    THEN IF q.update = <<>>
         THEN [raises |-> "mariadb.IntegrityError", t |-> t]
         ELSE LET old == CHOOSE r \in BagToSet(t.rows) : KeyOf(t, r) = KeyOf(t, params)
              IN [raises |-> "",
                  t |-> [t EXCEPT !.rows =
                           (t.rows (-) SetToBag({old}))
                              (+) SetToBag({UpdateRow(t, old, params, q.update)})]]
    ELSE [raises |-> "", t |-> [t EXCEPT !.rows = t.rows (+) SetToBag({params})]]

\* MariadbClient.insert(*data) on table object tb, store table t.
ClientInsert(tb, data, t) ==
    IF Len(data) # TableLen(tb)
    THEN \* the message reads self._table_name, which the client does not have
         [raises |-> "AttributeError", t |-> t]
    ELSE ExecInsert(tb._insert_query, data, t)

---------------------------------------------------------------------------
(* Table specification: construct a table, create it, insert through the   *)
(* client.                                                                 *)

\* Objects offered to the constructor: two key columns, two distinct objects
\* that are both named "v", and one object that is no DataType.
ColumnPool ==
    {SmallInt(1, "k", UNSIGNED, TRUE),
     SmallInt(5, "j", UNSIGNED, TRUE),
     Text(2, "v", FALSE),
     VarChar(3, "v", 10, FALSE),
     NotAColumn(4)}

ColumnInputs ==
    {ColumnsArg("single", <<c>>) : c \in ColumnPool}
        \cup {ColumnsArg(f, es) : f \in {"list", "iterator"},
                                  es \in SeqsUpTo(ColumnPool, MaxCols)}

InsertValues == {1, 2}

NoTableObject == [input |-> ColumnsArg("list", <<>>), result |-> TableError("not constructed")]

NoInsert == [called |-> FALSE, data |-> <<>>, raises |-> "", assigned |-> ""]

\* The properties of MariadbTable and the field behind each.
Properties == {"table_name", "table_query", "insert_query"}

FieldOf(attr) ==
    CASE attr = "table_name" -> "_table_name"
      [] attr = "table_query" -> "_table_query"
      [] attr = "insert_query" -> "_insert_query"

\* Setters that store the value.
Setter_Storing(t, attr, value) ==
    [raises |-> "", t |-> [t EXCEPT ![FieldOf(attr)] = value]]

\* table.<attr> = value: the property setters, lines 116-136. The setter of
\* insert_query takes no value parameter, so calling it with the value fails
\* before its body runs.
Setter(t, attr, value) ==
    [raises |-> IF attr = "insert_query" THEN "TypeError" ELSE "RuntimeError",
     t |-> t]

\* No definition() call has been recorded.
NoRender == [done |-> FALSE, column |-> NotAColumn(0), result |-> NoFragment("")]

InitTable ==
    /\ table = NoTableObject
    /\ dbt = NoTable
    /\ calls = <<>>
    /\ attempt = NoInsert
    /\ rendered = NoRender

\* MariadbTable("t", columns), then MariadbClient.__post_init__'s
\* execute(table_query) on a fresh database.
Construct ==
    \E input \in ColumnInputs :
        LET t == MariadbTable("t", input) IN
        /\ table' = [input |-> input, result |-> t]
        /\ dbt' = IF t.raises = "" THEN CreateTable(t._table_query, NoTable).t
                  ELSE NoTable
        /\ calls' = <<>>
        /\ attempt' = NoInsert
        /\ UNCHANGED <<rendered, cvars>>

\* client.insert(*data) on the constructed table.
Insert ==
    /\ table.result.raises = ""
    /\ dbt.exists
    /\ Len(calls) < MaxInserts
    /\ \E data \in SeqsUpTo(InsertValues, TableLen(table.result) + 1) :
          LET r == ClientInsert(table.result, data, dbt) IN
          /\ dbt' = r.t
          /\ calls' = IF r.raises = "" THEN Append(calls, data) ELSE calls
          /\ attempt' = [called |-> TRUE, data |-> data, raises |-> r.raises,
                          assigned |-> ""]
          /\ UNCHANGED <<table, rendered, cvars>>

\* A caller assigns to a property of the constructed table.
Assign ==
    /\ table.result.raises = ""
    /\ \E attr \in Properties :
          LET r == Setter(table.result, attr, "x") IN
          /\ table' = [table EXCEPT !.result = r.t]
          /\ attempt' = [called |-> FALSE, data |-> <<>>, raises |-> r.raises,
                          assigned |-> attr]
    /\ UNCHANGED <<dbt, calls, rendered, cvars>>

---------------------------------------------------------------------------
(* Calendar.                                                               *)

MonthIndex(ym) == ym[1] * 12 + ym[2] - 1

MonthOfIndex(i) == <<i \div 12, (i % 12) + 1>>

Before(a, b) == a[1] < b[1] \/ (a[1] = b[1] /\ a[2] < b[2])

\* A next_month that forgets the year at December.
next_month_SameYear(year, month) ==
    IF month = 12 THEN <<year, 1>> ELSE <<year, month + 1>>

\* next_month of start_requests: daily_trading.py 76-85
next_month(year, month) ==
    IF month = 12 THEN <<year + 1, 1>> ELSE <<year, month + 1>>

---------------------------------------------------------------------------
(* DailyTradingPipeline's tables: pipelines.py 540-561.                    *)

data_type ==
    <<SmallInt(1, "symbol", UNSIGNED, TRUE),
      SmallInt(2, "year", UNSIGNED, TRUE),
      TinyInt(3, "month", UNSIGNED, TRUE),
      TinyInt(4, "day", UNSIGNED, TRUE),
      BigInt(5, "volume", UNSIGNED, FALSE),
      BigInt(6, "value", UNSIGNED, FALSE),
      Decimal(7, "open", 8, 3, FALSE),
      Decimal(8, "highest", 8, 3, FALSE),
      Decimal(9, "lowest", 8, 3, FALSE),
      Decimal(10, "closing", 8, 3, FALSE),
      VarChar(11, "delta", 10, FALSE),
      Integer(12, "transaction_volume", SIGNED, FALSE)>>

table_name == "stock_daily_trading"

check_data_type ==
    <<SmallInt(21, "symbol", UNSIGNED, TRUE),
      SmallInt(22, "year", UNSIGNED, TRUE),
      TinyInt(23, "month", UNSIGNED, TRUE),
      Text(24, "update_time", FALSE)>>

check_table_name == "check_table"

DailyTable == MariadbTable(table_name, ColumnsArg("list", data_type))

CheckTable == MariadbTable(check_table_name, ColumnsArg("list", check_data_type))

EmptyStore == [daily |-> NoTable, check |-> NoTable]

\* The CompletionRecords of a database state: the rows of check_table.
Ledger(db) == BagToSet(db.check.rows)

HasRecord(db, symbol, year, month) ==
    \E r \in Ledger(db) : r[1] = symbol /\ r[2] = year /\ r[3] = month

---------------------------------------------------------------------------
(* Upstream responses and DailyTradingSpider.parse.                        *)

\* Text is a sequence of characters; None is the null bound to a placeholder.
None == <<"None">>

Dashes == <<"-", "-">>

\* tests/daily_data.py: the fields of a response; one row's values, with
\* thousands separators and the "--" of a value that is not available.
daily_fields ==
    <<"Date", "Trade Volume", "Trade Value", "Opening Price", "Highest Price",
      "Lowest Price", "Closing Price", "Change", "Transaction">>

daily_data ==
    <<<<"1", ",", "0", ",", "0">>,
      <<"9", ",", "4", "8", "7">>,
      <<"9", ".", "5">>,
      Dashes,
      <<"9", ".", "5">>,
      <<"9", ".", "5">>,
      <<"+", "0", ".", "1">>,
      <<"9", "4">>>>

\* A data row: the date "Y/M/D" in its parts, then the values.
DataRow(year, month, day) == <<<<year, month, day>>>> \o daily_data

Request(year, month, symbol) ==
    [year |-> year, month |-> month, request_symbol |-> symbol]

\* The data lists upstream may send for a request: up to MaxRows rows dated
\* in the requested month, the last one possibly dated in the month after.
DataLists(req) ==
    LET nxt == MonthOfIndex(MonthIndex(<<req.year, req.month>>) + 1)
        inMonth(n) == [i \in 1..n |-> DataRow(req.year, req.month, i)]
        spilled(n) == [i \in 1..n |-> IF i = n THEN DataRow(nxt[1], nxt[2], 1)
                                      ELSE DataRow(req.year, req.month, i)]
    IN {inMonth(n) : n \in 0..MaxRows} \cup {spilled(n) : n \in 1..MaxRows}

\* What upstream answers: stat, the title's "year/month" and trailing symbol,
\* fields, data.
Responses(req) ==
    LET other == MonthOfIndex(MonthIndex(<<req.year, req.month>>) + 1) IN
    {[stat |-> "OK", title_date |-> <<req.year, req.month>>,
      title_symbol |-> req.request_symbol, fields |-> daily_fields, data |-> d]
        : d \in DataLists(req)}
    \cup
    {[stat |-> "No Data!", title_date |-> <<req.year, req.month>>,
      title_symbol |-> req.request_symbol, fields |-> daily_fields, data |-> <<>>],
     [stat |-> "OK", title_date |-> other,
      title_symbol |-> req.request_symbol, fields |-> daily_fields,
      data |-> <<DataRow(other[1], other[2], 1)>>],
     [stat |-> "OK", title_date |-> <<req.year, req.month>>,
      title_symbol |-> req.request_symbol + 1, fields |-> daily_fields,
      data |-> <<DataRow(req.year, req.month, 1)>>]}

\* A parse that does not compare the title's security with the request's.
parse_AnySymbol(js, year, month, request_symbol) ==
    IF js.stat # "OK" THEN <<>>
    ELSE IF <<year, month>> # js.title_date THEN <<>>
    ELSE <<[symbol |-> js.title_symbol, fields |-> js.fields, data |-> js.data]>>

\* parse(response, year, month, request_symbol): the items it yields.
parse(js, year, month, request_symbol) ==
    IF js.stat # "OK" THEN <<>>
    ELSE IF <<year, month>> # js.title_date THEN <<>>
    ELSE IF request_symbol # js.title_symbol THEN <<>>
    ELSE <<[symbol |-> js.title_symbol, fields |-> js.fields, data |-> js.data]>>

---------------------------------------------------------------------------
(* DailyTradingPipeline.process_item: pipelines.py 608-653.                *)

\* value.replace(",", "")
RemoveCommas(value) ==
    LET not_comma(c) == c # "," IN SelectSeq(value, not_comma)

\* A formatting that binds "--" as text.
FormatValue_Text(value) == RemoveCommas(value)

\* lines 631-635
FormatValue(value) == IF value = Dashes THEN None ELSE RemoveCommas(value)

Min(a, b) == IF a < b THEN a ELSE b

\* formatted_data.values() for one row: symbol, the date's parts under
\* "year", "month", "day", then one value per field name after the first.
\* (The field names of a response are distinct.)
FormattedValues(symbol, fields, data) ==
    LET date == data[1]
        n == Min(Len(fields), Len(data)) - 1
    IN <<symbol>> \o [i \in 1..Min(3, Len(date)) |-> date[i]]
                  \o [i \in 1..n |-> FormatValue(data[i + 1])]

ClientCall(op, args) == [op |-> op, args |-> args]

NoOps == [calls |-> <<>>, raises |-> "", current |-> <<0, 0>>, key |-> <<>>,
          done |-> FALSE]

\* A row loop that goes on after an insert the database refused.
RECURSIVE InsertRows_Swallow(_, _, _, _, _)
InsertRows_Swallow(it, i, fail, t, acc) ==
    IF i > Len(it.data) THEN [raises |-> "", t |-> t, calls |-> acc]
    ELSE
    LET values == <<it.symbol>> \o it.data[i][1]
        r == IF i = fail THEN [raises |-> "", t |-> t]
             ELSE [raises |-> "", t |-> [t EXCEPT !.rows = @ (+) SetToBag({values})]]
    IN InsertRows_Swallow(it, i + 1, fail, r.t,
                          Append(acc, [op |-> "insert", args |-> values]))

\* The for loop of lines 622-636 from row i on: the daily table and the
\* calls made so far. fail is the row whose insert the database refuses
\* (0: none).
RECURSIVE InsertRows(_, _, _, _, _)
InsertRows(it, i, fail, t, acc) ==
    IF i > Len(it.data) THEN [raises |-> "", t |-> t, calls |-> acc]
    ELSE
    LET values == FormattedValues(it.symbol, it.fields, it.data[i])
        r == IF i = fail THEN [raises |-> "mariadb.Error", t |-> t]
             ELSE ClientInsert(DailyTable, values, t)
        acc2 == Append(acc, ClientCall("insert", values))
    IN IF r.raises # "" THEN [raises |-> r.raises, t |-> t, calls |-> acc2]
       ELSE InsertRows(it, i + 1, fail, r.t, acc2)

\* A post-ingest step that never writes the record.
ShouldRecord_Never(current, year, month) == FALSE

\* The post-ingest decision of line 641: whether the record is written.
ShouldRecord(current, year, month) == current[1] # year \/ current[2] # month

\* process_item(item): the database state it leaves in the connection, the
\* calls it made, whether it committed.
process_item(it, current, db, fail) ==
    LET ins == InsertRows(it, 1, fail, db.daily, <<>>) IN
    IF ins.raises # ""
    THEN [db |-> [db EXCEPT !.daily = ins.t], committed |-> FALSE,
          ops |-> [NoOps EXCEPT !.calls = ins.calls, !.raises = ins.raises,
                                !.current = current]]
    ELSE IF Len(it.data) = 0
    THEN \* formatted_data was never bound: line 639 raises
         [db |-> db, committed |-> FALSE,
          ops |-> [NoOps EXCEPT !.raises = "UnboundLocalError",
                                !.current = current]]
    ELSE
    LET last == FormattedValues(it.symbol, it.fields, it.data[Len(it.data)])
        symbol == it.symbol
        year == last[2]
        month == last[3]
        params == <<symbol, year, month, current>>
        chk == IF ShouldRecord(current, year, month)
               THEN ExecInsert(CheckTable._insert_query, params, db.check)
               ELSE [raises |-> "", t |-> db.check]
        calls1 == IF ShouldRecord(current, year, month)
                  THEN Append(ins.calls, ClientCall("execute", params))
                  ELSE ins.calls
    IN
    IF chk.raises # ""
    THEN [db |-> [db EXCEPT !.daily = ins.t], committed |-> FALSE,
          ops |-> [NoOps EXCEPT !.calls = calls1, !.raises = chk.raises,
                                !.current = current]]
    ELSE [db |-> [daily |-> ins.t, check |-> chk.t], committed |-> TRUE,
          ops |-> [calls |-> Append(calls1, ClientCall("commit", <<>>)),
                   raises |-> "", current |-> current,
                   key |-> <<symbol, year, month>>, done |-> TRUE]]

---------------------------------------------------------------------------
(* DailyTradingSpider.start_requests: daily_trading.py 52-141.             *)

\* lines 106-107
start_year == 2010
start_month == 1

\* A planner that never finds a record.
exist_Blind(year, month, symbol) == FALSE

\* exist(year, month, symbol): lines 87-103. The spider's read-only
\* connection sees the committed check_table.
exist(year, month, symbol) ==
    IF connection = "None" THEN FALSE
    ELSE HasRecord(store, symbol, year, month)

\* A planner without the floor of January 2010.
StartOf_NoFloor(listing_date) == <<listing_date[1], listing_date[2]>>

\* lines 111-124: the month a security's enumeration starts at.
StartOf(listing_date) ==
    LET year == listing_date[1]
        month == listing_date[2]
    IN IF year < start_year THEN <<start_year, start_month>> ELSE <<year, month>>

\* A planner whose end bound is the current month itself.
EndOf_Exclusive(current) == current

\* line 125
EndOf(current) == next_month(current[1], current[2])

NoPlan == [pc |-> "idle", order |-> <<>>, symbol |-> 0, year |-> 0, month |-> 0,
           end |-> <<0, 0>>, current |-> <<0, 0>>]

Enumerated(symbol, year, month, emit) ==
    [symbol |-> symbol, year |-> year, month |-> month, emit |-> emit]

\* What a security's block was started with: its locals, and the months the
\* ledger held for the security at that moment (all of them when the spider
\* has no connection: none).
Block(symbol, start, current) ==
    [symbol |-> symbol, start |-> start, current |-> current, done |-> FALSE,
     reads |-> connection # "None",
     recorded |-> {<<r[2], r[3]>> : r \in {x \in Ledger(store) : x[1] = symbol}}]

Finish(blocks) ==
    IF blocks = <<>> THEN blocks
    ELSE [blocks EXCEPT ![Len(blocks)].done = TRUE]

\* The generator run from the while test of line 126 (Loop) or from the for
\* statement of line 108 (NextBlock) to its next yield or to its end.
\* A loop that has passed its end bound is followed for MaxAhead months.
RECURSIVE Loop(_, _)
RECURSIVE NextBlock(_, _)
Loop(p, acc) ==
    IF p.end = <<p.year, p.month>>
    THEN NextBlock(p, [acc EXCEPT !.blk = Finish(acc.blk)])
    ELSE IF MonthIndex(<<p.year, p.month>>) > MonthIndex(p.end) + MaxAhead
    THEN [plan |-> [p EXCEPT !.pc = "looping"], out |-> acc.out, blk |-> acc.blk,
          requests |-> <<>>]
    ELSE IF ~exist(p.year, p.month, p.symbol)
    THEN [plan |-> [p EXCEPT !.pc = "yielded"],
          out |-> Append(acc.out, Enumerated(p.symbol, p.year, p.month, TRUE)),
          blk |-> acc.blk,
          requests |-> <<Request(p.year, p.month, p.symbol)>>]
    ELSE LET nxt == next_month(p.year, p.month) IN
         Loop([p EXCEPT !.year = nxt[1], !.month = nxt[2]],
              [acc EXCEPT !.out = Append(acc.out,
                               Enumerated(p.symbol, p.year, p.month, FALSE))])

NextBlock(p, acc) ==
    IF p.order = <<>>
    THEN [plan |-> [p EXCEPT !.pc = "done"], out |-> acc.out, blk |-> acc.blk,
          requests |-> <<>>]
    ELSE
    LET sym == Head(p.order)
        start == StartOf(sym[2])
    IN Loop([p EXCEPT !.order = Tail(p.order), !.symbol = sym[1],
                      !.year = start[1], !.month = start[2],
                      !.current = now, !.end = EndOf(now)],
            [acc EXCEPT !.blk = Append(acc.blk, Block(sym[1], start, now))])

\* next(generator)
Advance(p) ==
    IF p.pc = "yielded"
    THEN LET nxt == next_month(p.year, p.month) IN
         Loop([p EXCEPT !.year = nxt[1], !.month = nxt[2]],
              [out |-> out, blk |-> blk])
    ELSE NextBlock(p, [out |-> out, blk |-> blk])

\* random.sample(symbols, len(symbols)): any order
Orders(syms) ==
    {[i \in 1..Len(syms) |-> syms[f[i]]] :
        f \in {g \in [1..Len(syms) -> 1..Len(syms)] :
                 \A i, j \in 1..Len(syms) : g[i] = g[j] => i = j}}

---------------------------------------------------------------------------
(* The crawl.                                                              *)

NoItem == [present |-> FALSE, item |-> [symbol |-> 0, fields |-> <<>>, data |-> <<>>],
           request |-> Request(0, 0, 0), fetched |-> <<0, 0>>]

NoRetry == [this |-> {}, owed |-> {}]

UnitOf(req) == <<req.request_symbol, req.year, req.month>>

\* The stock_info tables and clocks a behaviour starts from.
Scenarios ==
    {[symbols |-> <<<<1101, <<2009, 6, 1>>>>, <<4958, <<2010, 2, 10>>>>>>,
      now |-> <<2009, 12>>],
     [symbols |-> <<<<3481, <<2010, 12, 15>>>>>>,
      now |-> <<2010, 12>>]}

InitCrawl ==
    /\ \E sc \in Scenarios : symbols = sc.symbols /\ now = sc.now
    /\ ticks = 0
    /\ store = EmptyStore
    /\ tx = EmptyStore
    /\ client = "closed"
    /\ connection = "None"
    /\ plan = NoPlan
    /\ out = <<>>
    /\ blk = <<>>
    /\ queue = <<>>
    /\ item = NoItem
    /\ ops = NoOps
    /\ retry = NoRetry

\* scrapy crawl daily_trading: DailyTradingSpider.__init__ (29-50), then
\* DailyTradingPipeline.open_spider (570-602), then start_requests is called.
OpenSpider ==
    /\ client = "closed"
    /\ connection' = IF store.check.exists THEN "ro" ELSE "None"
    /\ LET created == [daily |-> CreateTable(DailyTable._table_query, store.daily).t,
                       check |-> CreateTable(CheckTable._table_query, store.check).t]
       IN store' = created /\ tx' = created
    /\ client' = "open"
    /\ \E order \in Orders(symbols) : plan' = [NoPlan EXCEPT !.pc = "start", !.order = order]
    /\ out' = <<>>
    /\ blk' = <<>>
    /\ queue' = <<>>
    /\ item' = NoItem
    /\ ops' = NoOps
    /\ retry' = [this |-> {}, owed |-> retry.this]
    /\ UNCHANGED <<symbols, now, ticks, tvars>>

\* A planner that empties the ledger while it enumerates.
PlanNext_Clearing ==
    /\ client = "open"
    /\ plan.pc \in {"start", "yielded"}
    /\ Len(queue) < MaxQueue
    /\ LET r == Advance(plan) IN
        /\ plan' = r.plan
        /\ out' = r.out
        /\ blk' = r.blk
        /\ queue' = queue \o r.requests
        /\ retry' = [retry EXCEPT !.owed = @ \ {UnitOf(q) : q \in Range(r.requests)}]
    /\ ops' = NoOps
    /\ store' = [store EXCEPT !.check.rows = EmptyBag]
    /\ tx' = [tx EXCEPT !.check.rows = EmptyBag]
    /\ UNCHANGED <<symbols, now, ticks, client, connection, item, tvars>>

\* The engine takes the next request from start_requests.
PlanNext ==
    /\ client = "open"
    /\ plan.pc \in {"start", "yielded"}
    /\ Len(queue) < MaxQueue
    /\ LET r == Advance(plan) IN
        /\ plan' = r.plan
        /\ out' = r.out
        /\ blk' = r.blk
        /\ queue' = queue \o r.requests
        /\ retry' = [retry EXCEPT !.owed = @ \ {UnitOf(q) : q \in Range(r.requests)}]
    /\ ops' = NoOps
    /\ UNCHANGED <<symbols, now, ticks, store, tx, client, connection, item, tvars>>

\* A request is downloaded and its response parsed.
Fetch ==
    /\ client = "open"
    /\ queue # <<>>
    /\ ~item.present
    /\ LET req == Head(queue) IN
       \E js \in Responses(req) :
          LET items == parse(js, req.year, req.month, req.request_symbol) IN
          /\ item' = IF items = <<>> THEN NoItem
                     ELSE [present |-> TRUE, item |-> items[1], request |-> req,
                           fetched |-> now]
          /\ retry' = IF items = <<>>
                      THEN [retry EXCEPT !.this = @ \cup {UnitOf(req)}]
                      ELSE retry
    /\ queue' = Tail(queue)
    /\ ops' = NoOps
    /\ UNCHANGED <<symbols, now, ticks, store, tx, client, connection, plan, out, blk, tvars>>

\* The item reaches DailyTradingPipeline.process_item.
ProcessItem ==
    /\ client = "open"
    /\ item.present
    /\ \E fail \in 0..Len(item.item.data) :
          LET r == process_item(item.item, now, tx, fail) IN
          /\ tx' = r.db
          /\ store' = IF r.committed THEN r.db ELSE store
          /\ ops' = r.ops
    /\ item' = NoItem
    /\ UNCHANGED <<symbols, now, ticks, client, connection, plan, out, blk, queue, retry, tvars>>

\* The step of close() that the database may refuse ("": none).
CloseFailures == {"", "cursor.close", "commit", "connection.close"}

\* MariadbClient.close(): mariadbclient.py 224-228. The steps it reached, the
\* error it raised, and the committed state it leaves from the pending state
\* db and the committed state `committed`.
close(db, committed, fail) ==
    LET c1 == <<ClientCall("cursor.close", <<>>)>>
        c2 == Append(c1, ClientCall("commit", <<>>))
        c3 == Append(c2, ClientCall("connection.close", <<>>))
    IN
    IF fail = "cursor.close"
    THEN [store |-> committed, calls |-> c1, raises |-> "mariadb.Error"]
    ELSE IF fail = "commit"
    THEN [store |-> committed, calls |-> c2, raises |-> "mariadb.Error"]
    ELSE [store |-> db, calls |-> c3,
          raises |-> IF fail = "connection.close" THEN "mariadb.Error" ELSE ""]

\* The crawl is over: close_spider calls client.close(); the process ends,
\* and what was not committed is lost with its connection.
CloseSpider ==
    /\ client = "open"
    /\ plan.pc = "done"
    /\ queue = <<>>
    /\ ~item.present
    /\ \E fail \in CloseFailures :
          LET r == close(tx, store, fail) IN
          /\ store' = r.store
          /\ tx' = r.store
          /\ ops' = [NoOps EXCEPT !.calls = r.calls, !.raises = r.raises]
    /\ client' = "closed"
    /\ connection' = "None"
    /\ plan' = NoPlan
    /\ out' = <<>>
    /\ blk' = <<>>
    /\ UNCHANGED <<symbols, now, ticks, queue, item, retry, tvars>>

\* The process is killed: the open transaction is rolled back.
Kill ==
    /\ client = "open"
    /\ tx' = store
    /\ client' = "closed"
    /\ connection' = "None"
    /\ plan' = NoPlan
    /\ queue' = <<>>
    /\ item' = NoItem
    /\ out' = <<>>
    /\ blk' = <<>>
    /\ ops' = NoOps
    /\ UNCHANGED <<symbols, now, ticks, store, retry, tvars>>

\* The calendar month ends.
Tick ==
    /\ ticks < MaxTicks
    /\ ticks' = ticks + 1
    /\ now' = MonthOfIndex(MonthIndex(now) + 1)
    /\ UNCHANGED <<symbols, store, tx, client, connection, plan, out, blk, queue, item, ops, retry, tvars>>

Init == InitCrawl /\ InitTable

Next == OpenSpider \/ PlanNext \/ Fetch \/ ProcessItem \/ CloseSpider \/ Kill \/ Tick

Spec == Init /\ [][Next]_vars

---------------------------------------------------------------------------
(* Ingest specification: the pipeline fed with the units of one security,   *)
(* in any order and any number of times, as a spider does whose exist()     *)
(* finds no record.                                                         *)

\* The security of the ingest specification and its row in stock_info.
IngestSymbols == <<<<3481, <<2010, 11, 15>>>>>>

\* open_spider on an empty database.
OpenedStore ==
    [daily |-> CreateTable(DailyTable._table_query, NoTable).t,
     check |-> CreateTable(CheckTable._table_query, NoTable).t]

InitIngest ==
    /\ InitTable
    /\ symbols = IngestSymbols
    /\ now = <<2010, 12>>
    /\ ticks = 0
    /\ store = OpenedStore
    /\ tx = OpenedStore
    /\ client = "open"
    /\ connection = "None"
    /\ plan = NoPlan
    /\ out = <<>>
    /\ blk = <<>>
    /\ queue = <<>>
    /\ item = NoItem
    /\ ops = NoOps
    /\ retry = NoRetry

\* start_requests yields the request of a month between the security's
\* starting month and the month of now.
Schedule ==
    /\ client = "open"
    /\ queue = <<>>
    /\ \E s \in Range(symbols) :
       \E k \in MonthIndex(StartOf(s[2]))..MonthIndex(now) :
          queue' = <<Request(MonthOfIndex(k)[1], MonthOfIndex(k)[2], s[1])>>
    /\ UNCHANGED <<symbols, now, ticks, store, tx, client, connection, plan, out,
                   blk, item, ops, retry, tvars>>

NextIngest == Schedule \/ Fetch \/ ProcessItem \/ Tick

SpecIngest == InitIngest /\ [][NextIngest]_vars

InitT == InitTable /\ InitCrawl

NextT == Construct \/ Insert \/ Assign

SpecTable == InitT /\ [][NextT]_vars

---------------------------------------------------------------------------
(* Column specification: definition() of the numeric columns.              *)

\* Values of the attribute field: the three members of NumericAttribute, and
\* two objects that are no member (None, and the str 'UNSIGNED').
AttributeTags == {UNSIGNED, SIGNED, ZEROFILL, "None", "str:UNSIGNED"}

\* The numeric columns whose definition is rendered.
NumericColumns ==
    {Column(1, cls, name, pk, 0, attr, 0, 0) :
        cls \in IntegerClasses, name \in {"k", "v"}, pk \in BOOLEAN,
        attr \in AttributeTags}
    \cup
    {Column(1, "Decimal", name, pk, 0, attr, ps[1], ps[2]) :
        name \in {"k", "v"}, pk \in BOOLEAN, attr \in AttributeTags,
        ps \in {<<8, 3>>, <<5, 0>>}}

\* column.definition()
Render ==
    /\ \E c \in NumericColumns :
          rendered' = [done |-> TRUE, column |-> c, result |-> definition(c)]
    /\ UNCHANGED <<table, dbt, calls, attempt, cvars>>

NextColumn == Render

SpecColumn == InitT /\ [][NextColumn]_vars

---------------------------------------------------------------------------
(* Properties of the table specification (SpecTable).                      *)

\* The entries of the constructor's input that are DataType objects sharing
\* a name with another entry.
SharedNames(elems) ==
    {i \in 1..Len(elems) : \E j \in 1..Len(elems) :
        i # j /\ elems[i].name = elems[j].name
              /\ IsDataType(elems[i]) /\ IsDataType(elems[j])}

Constructed == table # NoTableObject

\* The stored rows that carry the key of `data`.
RowsWithKey(data) ==
    {r \in BagToSet(dbt.rows) : KeyOf(dbt, r) = KeyOf(dbt, data)}

\* Two inserts since construction, the later one the last call so far, with
\* the same primary key and different values.
SameKeyPairs ==
    {i \in 1..Len(calls) :
        /\ i < Len(calls)
        /\ dbt.pk # <<>>
        /\ KeyOf(dbt, calls[i]) = KeyOf(dbt, calls[Len(calls)])
        /\ calls[i] # calls[Len(calls)]}

\* C8: on a table with a primary key, inserting twice with the same key and
\* different non-key values leaves exactly one row for the key, and that row
\* holds the values of the second call.
C8_SecondCallWins ==
    SameKeyPairs # {} =>
        LET second == calls[Len(calls)] IN
        /\ RowsWithKey(second) = {second}
        /\ CopiesIn(second, dbt.rows) = 1

\* C9: a column input in which two columns share a name, distinct objects
\* included, makes the constructor fail, so a constructed table has
\* pairwise distinct column names.
C9_SharedNameRejected ==
    Constructed =>
        /\ SharedNames(table.input.elems) # {} => table.result.raises # ""
        /\ table.result.raises = "" =>
              \A i, j \in 1..Len(table.result._columns) :
                 i # j => table.result._columns[i].name
                             # table.result._columns[j].name

\* C10: an empty column input, or one with an entry that is no DataType,
\* makes the constructor fail, so a constructed table has at least one
\* column, whatever the form of the input (single, list, other iterable).
C10_EmptyOrForeignRejected ==
    Constructed =>
        /\ (table.input.elems = <<>>
              \/ \E i \in 1..Len(table.input.elems) :
                    ~IsDataType(table.input.elems[i]))
            => table.result.raises # ""
        /\ table.result.raises = "" => TableLen(table.result) >= 1

---------------------------------------------------------------------------
(* Properties of the crawl (Spec).                                         *)

\* What the current pass has enumerated for a security, in order; the part
\* of it that was emitted as requests.
OutOf(symbol) ==
    LET mine(e) == e.symbol = symbol IN SelectSeq(out, mine)

EmittedOf(symbol) ==
    LET mine(e) == e.symbol = symbol /\ e.emit IN SelectSeq(out, mine)

MonthsOf(es) == [i \in 1..Len(es) |-> <<es[i].year, es[i].month>>]

\* The n calendar months from month a on.
MonthsFrom(a, n) == [k \in 1..n |-> MonthOfIndex(MonthIndex(a) + k - 1)]

\* The (year, month) of a security's listing date in stock_info.
ListingMonth(symbol) ==
    LET s == CHOOSE x \in Range(symbols) : x[1] = symbol
    IN <<s[2][1], s[2][2]>>

\* The months between a block's start and the month before its current one.
ClosedRange(b) ==
    {MonthOfIndex(k) : k \in MonthIndex(b.start)..(MonthIndex(b.current) - 1)}

\* C1, post-ingest: once process_item has handled a unit of a month before
\* the current one, the ledger holds the unit's record.
C1_RecordAfterIngest ==
    (ops.done /\ Before(<<ops.key[2], ops.key[3]>>, ops.current))
        => HasRecord(store, ops.key[1], ops.key[2], ops.key[3])

\* C1, planning: a pass that reads the ledger emits no unit whose record the
\* ledger holds.
C1_RecordedNotEmitted ==
    connection = "ro" =>
        \A i \in (Len(out) + 1)..Len(out') :
            out'[i].emit =>
                ~HasRecord(store, out'[i].symbol, out'[i].year, out'[i].month)

\* C1, planning: a pass started over a ledger that holds a record reads the
\* ledger.
C1_LaterPassReads ==
    (client = "closed" /\ client' = "open" /\ Ledger(store) # {})
        => connection' = "ro"

C2_OnlyPastMonthsRecorded ==
    /\ \A r \in Ledger(store) \cup Ledger(tx) : Before(<<r[2], r[3]>>, r[4])
    /\ \A i \in 1..Len(ops.calls) :
          ops.calls[i].op = "execute" =>
              /\ \E j \in 1..(i - 1) : ops.calls[j].op = "insert"
              /\ \A j \in (i + 1)..Len(ops.calls) : ops.calls[j].op # "insert"

C4_OnlyCurrentMonth ==
    \A i \in 1..Len(blk) :
        (/\ blk[i].done
         /\ ~Before(blk[i].current, blk[i].start)
         /\ ClosedRange(blk[i]) \subseteq blk[i].recorded
         /\ blk[i].current \notin blk[i].recorded)
            => MonthsOf(EmittedOf(blk[i].symbol)) = <<blk[i].current>>

\* A ledger closed up to a past month, and the pass over it finished.
C4_Witness ==
    \E i \in 1..Len(blk) :
        /\ blk[i].done
        /\ blk[i].reads
        /\ Before(blk[i].start, blk[i].current)
        /\ ClosedRange(blk[i]) \subseteq blk[i].recorded
        /\ blk[i].current \notin blk[i].recorded
        /\ MonthsOf(EmittedOf(blk[i].symbol)) = <<blk[i].current>>

\* C5 as stated: a finished enumeration does not hold the month containing
\* now, and its last month is the month before it.
C5_StopsBeforeCurrent ==
    \A i \in 1..Len(blk) :
        blk[i].done =>
            LET o == MonthsOf(OutOf(blk[i].symbol)) IN
            /\ \A k \in 1..Len(o) : o[k] # blk[i].current
            /\ o # <<>> => o[Len(o)] = MonthOfIndex(MonthIndex(blk[i].current) - 1)

\* C5 as the code has it: the enumeration of a security runs month by month
\* from its start; when the start is not after the month following now, it
\* ends with the month containing now (with nothing when the start is the
\* month after now), and otherwise it does not end.
C5_ThroughCurrent ==
    \A i \in 1..Len(blk) :
        LET o == MonthsOf(OutOf(blk[i].symbol))
            n == MonthIndex(blk[i].current) - MonthIndex(blk[i].start) + 1
        IN
        /\ o = MonthsFrom(blk[i].start, Len(o))
        /\ (n >= 0) => (Len(o) <= n)
        /\ blk[i].done => (n >= 0 /\ o = MonthsFrom(blk[i].start, n))

\* A finished enumeration of several months whose last is the current month.
C5_Witness ==
    \E i \in 1..Len(blk) :
        LET o == MonthsOf(OutOf(blk[i].symbol)) IN
        /\ blk[i].done
        /\ Before(blk[i].start, blk[i].current)
        /\ Len(o) >= 2
        /\ o[1] = blk[i].start
        /\ o[Len(o)] = blk[i].current

\* C6: in a pass, the months enumerated for a security follow one another by
\* one calendar month (December by January of the next year), and its
\* emitted units are in strictly increasing order, each month once, in any
\* order of the securities.
C6_Chronological ==
    \A s \in Range(symbols) :
        LET o == MonthsOf(OutOf(s[1]))
            e == MonthsOf(EmittedOf(s[1]))
        IN
        /\ \A i \in 1..Len(o) : o[i][2] \in 1..12
        /\ \A i \in 1..(Len(o) - 1) :
              o[i + 1] = IF o[i][2] = 12 THEN <<o[i][1] + 1, 1>>
                         ELSE <<o[i][1], o[i][2] + 1>>
        /\ \A i, j \in 1..Len(e) : i < j => Before(e[i], e[j])

\* A December unit and the January unit after it, both emitted.
C6_Witness ==
    \E s \in Range(symbols) :
        LET e == MonthsOf(EmittedOf(s[1])) IN
        \E i \in 1..(Len(e) - 1) :
            e[i][2] = 12 /\ e[i + 1] = <<e[i][1] + 1, 1>>

\* C7: the first month enumerated for a security is the later of its
\* listing month and January 2010.
C7_FirstMonth ==
    \A i \in 1..Len(blk) :
        LET listing == ListingMonth(blk[i].symbol)
            first == IF Before(listing, <<2010, 1>>) THEN <<2010, 1>> ELSE listing
            o == MonthsOf(OutOf(blk[i].symbol))
        IN
        /\ blk[i].start = first
        /\ o # <<>> => o[1] = first

\* A security listed before 2010 whose first unit, January 2010, was emitted.
C7_Witness ==
    \E i \in 1..Len(blk) :
        /\ Before(ListingMonth(blk[i].symbol), <<2010, 1>>)
        /\ EmittedOf(blk[i].symbol) # <<>>
        /\ MonthsOf(OutOf(blk[i].symbol))[1] = <<2010, 1>>

\* C11: a unit whose response was unresolved (stat not OK, or another month
\* or security in the title) is requested again by the next planning pass:
\* a finished pass owes no unit that the pass before left unresolved.
C11_UnresolvedRetried ==
    plan.pc = "done" => retry.owed = {}

\* C12: a unit that has a record in the ledger keeps it: no step of a
\* planning pass, an ingest, a commit, a failure, a close or a kill removes
\* a record from the committed ledger.
C12_RecordsKept ==
    [][\A r \in Ledger(store) : HasRecord(store', r[1], r[2], r[3])]_vars

\* A record written in an earlier pass is in the ledger after a later pass
\* was opened over it and an ingest of another unit was committed.
C12_Witness ==
    /\ connection = "ro"
    /\ ops.done
    /\ \E r \in Ledger(store) :
          /\ <<r[1], r[2], r[3]>> # ops.key
          /\ \E i \in 1..Len(out) :
                ~out[i].emit /\ <<out[i].symbol, out[i].year, out[i].month>>
                                    = <<r[1], r[2], r[3]>>

\* The committed rows of stock_daily_trading that carry the key (symbol,
\* year, month, day) of the bound values.
CommittedRows(db, values) ==
    {d \in BagToSet(db.daily.rows) : SubSeq(d, 1, 4) = SubSeq(values, 1, 4)}

C14_CloseCompletes ==
    (ops.calls # <<>> /\ ops.calls[1].op = "cursor.close") =>
        [i \in 1..Len(ops.calls) |-> ops.calls[i].op]
            = <<"cursor.close", "commit", "connection.close">>

\* C15: insert with a number of values other than the table's column count
\* fails with ValueError.
C15_ArityError ==
    (attempt.called /\ Len(attempt.data) # TableLen(table.result))
        => attempt.raises = "ValueError"

\* C16: the enumeration of a security reaches its end bound after finitely
\* many steps, for every listing date and every now: the month it stands at
\* is never past the end bound, from which next_month only leads away.
C16_EnumerationEnds ==
    plan.pc \in {"yielded", "looping"} =>
        MonthIndex(<<plan.year, plan.month>>) < MonthIndex(plan.end)

---------------------------------------------------------------------------
(* Properties of the ingest (SpecIngest).                                  *)

\* The ledger's records for the key of the process_item call that has just
\* returned.
RecordsOfKey ==
    {r \in Ledger(store) : <<r[1], r[2], r[3]>> = ops.key}

\* C17: after post-ingest of a unit of a past month the ledger holds exactly
\* one record for the unit, and its update time is the now of that ingest,
\* whether or not the unit had a record before.
C17_LastUpdatedIsNow ==
    (ops.done /\ Before(<<ops.key[2], ops.key[3]>>, ops.current)) =>
        /\ RecordsOfKey = {ops.key \o <<ops.current>>}
        /\ CopiesIn(ops.key \o <<ops.current>>, store.check.rows) = 1

---------------------------------------------------------------------------
(* Properties of the generated statements (SpecTable).                     *)

\* The positions of the key columns among the columns of the constructed
\* table.
KeyPositions ==
    {i \in 1..Len(table.result._columns) : table.result._columns[i].primary_key}

\* names lists the name of every key column of the constructed table once,
\* in the order in which the columns were declared.
InDeclaredOrder(names) ==
    /\ Len(names) = Cardinality(KeyPositions)
    /\ \E f \in [1..Len(names) -> KeyPositions] :
          /\ \A a, b \in 1..Len(names) : a < b => f[a] < f[b]
          /\ \A a \in 1..Len(names) : names[a] = table.result._columns[f[a]].name

C19_UpsertStatement ==
    table.result.raises = "" =>
        LET q == table.result._insert_query
        IN /\ Len(q.values) = TableLen(table.result)
           /\ \A i \in 1..Len(q.values) : q.values[i] = "?"
           /\ (q.update # <<>>) <=> (KeyPositions # {})
           /\ InDeclaredOrder([i \in 1..Len(q.update) |-> q.update[i].column])
           /\ \A i \in 1..Len(q.update) :
                 q.update[i].values_of = q.update[i].column

\* A table of a key column and a column that is no key; and a table of two
\* key columns is constructed in another state.
C19_Witness ==
    /\ table.result.raises = ""
    /\ KeyPositions = {2}
    /\ TableLen(table.result) = 2
    /\ table.result._insert_query.update
          = <<[column |-> table.result._columns[2].name,
               values_of |-> table.result._columns[2].name]>>

---------------------------------------------------------------------------
(* Properties of the bound values (Spec).                                  *)

\* bound is text with every comma taken out and nothing else changed.
WithoutCommas(bound, text) ==
    LET kept == {k \in 1..Len(text) : text[k] # ","}
    IN /\ Len(bound) = Cardinality(kept)
       /\ \A k \in kept : bound[Cardinality({m \in kept : m <= k})] = text[k]

\* args are the values an insert must bind for the row data of an item of
\* symbol with the given fields.
BoundAsSpecified(args, symbol, fields, data) ==
    /\ Len(args) = 4 + (Len(fields) - 1)
    /\ args[1] = symbol
    /\ <<args[2], args[3], args[4]>> = data[1]
    /\ \A j \in 1..(Len(fields) - 1) :
          IF data[j + 1] = <<"-", "-">>
          THEN args[4 + j] = None
          ELSE args[4 + j] # None /\ WithoutCommas(args[4 + j], data[j + 1])

\* C20: every insert of an ingest binds the symbol, the year, month and day
\* of the row's date, then one value per response field in order: null for
\* a field whose text is "--", and the text without its commas for every
\* other field.
C20_BoundValues ==
    [][(item.present /\ ~item'.present /\ ops'.current # <<0, 0>>) =>
          \A i \in 1..Len(ops'.calls) :
              ops'.calls[i].op = "insert" =>
                  BoundAsSpecified(ops'.calls[i].args, item.item.symbol,
                                   item.item.fields, item.item.data[i])]_vars

\* An ingest has bound 1,0,0 as 100 and "--" as null.
C20_Witness ==
    /\ ops.calls # <<>>
    /\ ops.calls[1].op = "insert"
    /\ ops.calls[1].args[5] = <<"1", "0", "0">>
    /\ ops.calls[1].args[8] = None
    /\ ops.calls[1].args[11] = <<"+", "0", ".", "1">>

---------------------------------------------------------------------------
(* Properties of the planner's and the pipeline's effects (Spec).          *)

\* A step of start_requests: the generator is resumed and runs to its next
\* yield or to its end.
PlannerStep ==
    /\ plan.pc \in {"start", "yielded"}
    /\ plan' # plan
    /\ client = "open"
    /\ client' = "open"

\* C21: a planning pass only reads the ledger: no step of start_requests,
\* whether it emits units or skips them, changes the committed or the
\* pending records.
C21_PlannerOnlyReads ==
    [][PlannerStep => (store' = store /\ tx' = tx)]_vars

\* A finished pass over a ledger with records that skipped a unit and
\* emitted another.
C21_Witness ==
    /\ plan.pc = "done"
    /\ connection = "ro"
    /\ Ledger(store) # {}
    /\ \E i, j \in 1..Len(out) : out[i].emit /\ ~out[j].emit

\* The positions of the calls of kind op among the calls of the last
\* pipeline method.
CallsOf(op) == {i \in 1..Len(ops.calls) : ops.calls[i].op = op}

\* A process_item call that has returned made exactly one commit, as its
\* last call, after every row insert and after the ledger write if there is
\* one; the ledger write comes after every row insert.
CommitEndsIngest ==
    ops.done =>
        /\ CallsOf("commit") = {Len(ops.calls)}
        /\ Cardinality(CallsOf("execute")) <= 1
        /\ \A i \in CallsOf("insert") : \A j \in CallsOf("execute") : i < j
        /\ CallsOf("insert") \cup CallsOf("execute") = 1..(Len(ops.calls) - 1)

\* close_spider has made exactly one commit.
CommitAtClose ==
    (ops.calls # <<>> /\ ops.calls[1].op = "cursor.close") =>
        Cardinality(CallsOf("commit")) = 1

\* C22: writes are committed once per security-month batch and once more at
\* the end of the run: a successful process_item ends with exactly one
\* commit, after all its row inserts and its ledger write, with no commit
\* between them, and close_spider issues one further commit.
C22_CommitPerUnit == CommitEndsIngest /\ CommitAtClose

---------------------------------------------------------------------------
(* Properties of the table object's fields (SpecTable).                    *)

\* C23: a table is immutable once constructed: an assignment to table_name,
\* table_query or insert_query fails with an error, and neither it nor a
\* client operation changes the name, the create statement or the upsert
\* statement (or anything else of the table).
C23_TableImmutable ==
    /\ [](attempt.assigned # "" => attempt.raises # "")
    /\ [][(attempt'.assigned # "" \/ attempt'.called) => table' = table]_vars

\* An assignment to insert_query has just failed on a table that has rows.
C23_Witness ==
    /\ attempt.assigned = "insert_query"
    /\ attempt.raises # ""
    /\ calls # <<>>
    /\ table.result._insert_query.into = "t"

---------------------------------------------------------------------------
(* Properties of the column definitions (SpecColumn).                      *)

\* The SQL type each integer class is rendered with.
SqlTypeOf(cls) ==
    CASE cls = "TinyInt" -> "TINYINT"
      [] cls = "SmallInt" -> "SMALLINT"
      [] cls = "Integer" -> "INT"
      [] cls = "BigInt" -> "BIGINT"

\* C24: the definition of a TinyInt, SmallInt, Integer or BigInt column is
\* its name, its SQL type and the attribute UNSIGNED, SIGNED or ZEROFILL of
\* its tag; it fails with ValueError for any other tag; the definition of a
\* Decimal column is its name and DECIMAL with precision and scale, without
\* an attribute.
C24_NumericDefinition ==
    rendered.done =>
        LET c == rendered.column
            r == rendered.result
        IN /\ (c.cls \in IntegerClasses /\ c.attribute \in {UNSIGNED, SIGNED, ZEROFILL})
                 => r = [raises |-> "", name |-> c.name, type |-> SqlTypeOf(c.cls),
                         params |-> <<>>, attr |-> c.attribute]
           /\ (c.cls \in IntegerClasses /\ c.attribute \notin {UNSIGNED, SIGNED, ZEROFILL})
                 => r.raises = "ValueError"
           /\ c.cls = "Decimal"
                 => r = [raises |-> "", name |-> c.name, type |-> "DECIMAL",
                         params |-> <<c.precision, c.scale>>, attr |-> ""]

\* The definition of an integer column with a tag that is no member of
\* NumericAttribute has been asked for.
C24_Witness ==
    /\ rendered.done
    /\ rendered.column.cls = "BigInt"
    /\ rendered.column.attribute = "None"
    /\ rendered.result.raises = "ValueError"

---------------------------------------------------------------------------
(* Properties of parse and of the items it yields (Spec).                  *)

\* The response answers the request: stat is OK, and the title names the
\* requested year, month and security.
Answers(js, req) ==
    /\ js.stat = "OK"
    /\ js.title_date = <<req.year, req.month>>
    /\ js.title_symbol = req.request_symbol

\* The item made of a response's values, unchanged and in order.
ItemOf(js, req) ==
    [symbol |-> req.request_symbol, fields |-> js.fields, data |-> js.data]

\* A step that downloads the first scheduled request and parses its response.
FetchStep ==
    /\ client = "open"
    /\ client' = "open"
    /\ queue # <<>>
    /\ queue' = Tail(queue)
    /\ ~item.present

\* parse yields exactly one item for every response that answers the
\* request, with the response's fields and data rows; and an item a fetch
\* leaves is the item of such a response to the fetched request.
ParseKeepsValues ==
    [][FetchStep =>
          LET req == Head(queue) IN
          /\ \A js \in Responses(req) :
                Answers(js, req) =>
                    parse(js, req.year, req.month, req.request_symbol)
                        = <<ItemOf(js, req)>>
          /\ item'.present =>
                /\ item'.request = req
                /\ \E js \in Responses(req) :
                      Answers(js, req) /\ item'.item = ItemOf(js, req)]_vars

\* With one security in stock_info, listed in the current month, and a
\* spider that finds no unit existing, the pass requests the security's
\* current month and nothing else.
CurrentMonthRequested ==
    \A i \in 1..Len(blk) :
        (/\ Len(symbols) = 1
         /\ blk[i].done
         /\ ~blk[i].reads
         /\ ListingMonth(blk[i].symbol) = blk[i].current)
            => MonthsOf(EmittedOf(blk[i].symbol)) = <<blk[i].current>>

\* The values after the date of every row of a scraped item are the served
\* values.
ScrapedAsServed ==
    item.present =>
        \A i \in 1..Len(item.item.data) : Tail(item.item.data[i]) = daily_data

---------------------------------------------------------------------------
(* Properties of the record's key and of the moment of its writing (Spec). *)

\* A process_item step that writes a record: the call returns and has
\* executed the ledger statement.
RecordStep ==
    /\ item.present
    /\ ops'.done
    /\ \E i \in 1..Len(ops'.calls) : ops'.calls[i].op = "execute"

\* C26: whenever a record is written for (security, year, month), the
\* response whose rows were ingested was fetched when (year, month) was
\* already before the current month, also when the month ends between the
\* fetch and the post-ingest decision.
C26_FetchedAfterMonthEnd ==
    [][RecordStep =>
          Before(<<ops'.key[2], ops'.key[3]>>, item.fetched)]_vars

\* C27: the record written after ingesting the item of the request for
\* (security, year, month) is keyed by that unit: the key process_item
\* takes from the item's symbol and the date of its last row is the unit the
\* planner emitted and parse validated.
C27_KeyIsRequestedUnit ==
    [][RecordStep => ops'.key = UnitOf(item.request)]_vars

\* C28: an item parse yields for a month before now, also one without data
\* rows, is closed by post-ingest: when the database refuses nothing,
\* process_item returns without error and has written and committed the
\* unit's record.
C28_PastUnitClosed ==
    [][(/\ item.present
        /\ ~item'.present
        /\ client' = "open"
        /\ Before(<<item.request.year, item.request.month>>, now)
        /\ ops'.raises # "mariadb.Error")
          => /\ ops'.done
             /\ HasRecord(store', item.request.request_symbol,
                          item.request.year, item.request.month)]_vars

=============================================================================
